---- MODULE Spec2Model ----
(***************************************************************************)
(* Model of main.py: S3BackupDownloader (construction, is_recent,          *)
(* find_recent_backups, download_file, run) and main.                      *)
(*                                                                         *)
(* Strings (object keys, path components) are sequences of one-character   *)
(* strings.  A datetime is a record [wall, aware, off]: the wall-clock     *)
(* reading in hours, whether tzinfo is set, and the UTC offset in hours.   *)
(* A compiled pattern is a sequence of atoms [kind, ch, star].             *)
(***************************************************************************)
EXTENDS Integers, Sequences, FiniteSets, TLC

(* ------------------------------ bounds --------------------------------- *)

\* longest listing the provider yields
MaxListing == 2
\* number of hours the wall clock may advance while the program runs
MaxTicks == 1
\* the UTC hour at which the program starts
Clock0 == 100

(* --------------------------- program constants ------------------------- *)

\* is_recent(self, last_modified, hours=24)
HOURS == 24

\* DOWNLOAD_DIR = "./downloads"
DOWNLOAD_DIR == <<".", "/", "d", "o", "w", "n", "l", "o", "a", "d", "s">>

Lit(c) == [kind |-> "lit", ch |-> c, star |-> FALSE]
AnyStar == [kind |-> "any", ch |-> ".", star |-> TRUE]
EndAnchor == [kind |-> "end", ch |-> "$", star |-> FALSE]

\* REGEX_PATTERN = r'.*DATA.*\.bak$'
REGEX_PATTERN ==
    <<AnyStar, Lit("D"), Lit("A"), Lit("T"), Lit("A"), AnyStar,
      Lit("."), Lit("b"), Lit("a"), Lit("k"), EndAnchor>>

\* a pattern without a leading wildcard, in lower case: r'data'
PATTERN_NO_WILDCARD == <<Lit("d"), Lit("a"), Lit("t"), Lit("a")>>

Patterns == {REGEX_PATTERN, PATTERN_NO_WILDCARD}

(* ------------------------------ inputs --------------------------------- *)

KeyNested == <<"f", "o", "l", "d", "e", "r", "/", "s", "u", "b", "/",
               "D", "A", "T", "A", "_", "2", "0", "2", "4", ".", "b", "a", "k">>
KeyTmp == <<"f", "o", "l", "d", "e", "r", "/", "d", "a", "t", "a", ".", "b", "a", "k",
            ".", "t", "m", "p">>
KeyRoot == <<"D", "A", "T", "A", "_", "2", "0", "2", "4", ".", "b", "a", "k">>

Keys == {KeyNested, KeyTmp, KeyRoot}

Naive(w) == [wall |-> w, aware |-> FALSE, off |-> 0]
Aware(w, o) == [wall |-> w, aware |-> TRUE, off |-> o]

\* last-modified stamps around the 24-hour boundary, relative to the start
Stamps ==
    { Naive(Clock0 - HOURS),          \* exactly 24 hours before the start
      Naive(Clock0 - HOURS + 1),      \* 23 hours before the start
      Aware(Clock0 - HOURS + 2, 2) }  \* UTC+2, instant exactly 24 hours before

Sizes == {4096}

(* --------------------------- pure functions ---------------------------- *)

UpperCase == <<"A", "B", "C", "D", "E", "F", "G", "H", "I", "J", "K", "L", "M",
               "N", "O", "P", "Q", "R", "S", "T", "U", "V", "W", "X", "Y", "Z">>
LowerCase == <<"a", "b", "c", "d", "e", "f", "g", "h", "i", "j", "k", "l", "m",
               "n", "o", "p", "q", "r", "s", "t", "u", "v", "w", "x", "y", "z">>

\* case folding applied by re.IGNORECASE
Fold(c) ==
    IF \E n \in 1..Len(UpperCase) : UpperCase[n] = c
    THEN LowerCase[CHOOSE n \in 1..Len(UpperCase) : UpperCase[n] = c]
    ELSE c

\* one atom of the compiled pattern against one character
AtomMatches(atom, c) ==
    CASE atom.kind = "lit" -> Fold(atom.ch) = Fold(c)
      [] atom.kind = "any" -> c # "\n"
      [] OTHER -> FALSE

\* backtracking matcher: can atoms n.. of p match s starting at position j
RECURSIVE MatchFrom(_, _, _, _)
MatchFrom(p, n, s, j) ==
    IF n > Len(p) THEN TRUE
    ELSE IF p[n].kind = "end"
         THEN /\ \/ j = Len(s) + 1
                 \/ j = Len(s) /\ s[j] = "\n"
              /\ MatchFrom(p, n + 1, s, j)
    ELSE IF p[n].star
         THEN \/ /\ j <= Len(s)
                 /\ AtomMatches(p[n], s[j])
                 /\ MatchFrom(p, n, s, j + 1)
              \/ MatchFrom(p, n + 1, s, j)
    ELSE /\ j <= Len(s)
         /\ AtomMatches(p[n], s[j])
         /\ MatchFrom(p, n + 1, s, j + 1)

\* re.Pattern.search: a match starting at any position
PatternSearch(p, s) == \E j \in 1..(Len(s) + 1) : MatchFrom(p, 1, s, j)

\* re.Pattern.match: a match starting at position 0 of the string
PatternMatch(p, s) == MatchFrom(p, 1, s, 1)

\* aware datetime comparison a > b: by instant
DtGreater(a, b) == (a.wall - a.off) > (b.wall - b.off)

\* inclusive cutoff
IsRecentInclusive(last_modified, hours, clock) ==
    LET lm == IF ~last_modified.aware THEN Aware(last_modified.wall, 0)
              ELSE last_modified
        cutoff_time == Aware(clock + lm.off - hours, lm.off)
    IN ~DtGreater(cutoff_time, lm)

\* S3BackupDownloader.is_recent; clock is the UTC hour read by datetime.now
is_recent(last_modified, hours, clock) ==
    LET lm == IF ~last_modified.aware THEN Aware(last_modified.wall, 0)
              ELSE last_modified
        cutoff_time == Aware(clock + lm.off - hours, lm.off)
    IN DtGreater(lm, cutoff_time)

\* str.split("/") as pathlib applies it: the segments between separators
RECURSIVE SplitSlash(_, _)
SplitSlash(s, cur) ==
    IF s = <<>> THEN <<cur>>
    ELSE IF Head(s) = "/" THEN <<cur>> \o SplitSlash(Tail(s), <<>>)
    ELSE SplitSlash(Tail(s), Append(cur, Head(s)))

\* pathlib parts of a relative path string: empty and "." segments dropped
PathParts(s) ==
    SelectSeq(SplitSlash(s, <<>>), LAMBDA seg : seg # <<>> /\ seg # <<".">>)

\* the whole key kept as the name
PathNameWholeKey(s) == s

\* Path(s).name: the last part, or the empty string
PathName(s) ==
    LET parts == PathParts(s)
    IN IF parts = <<>> THEN <<>> ELSE parts[Len(parts)]

\* self.download_dir / name
PathJoin(dir, name) ==
    IF name # <<>> /\ Head(name) = "/" THEN PathParts(name)
    ELSE PathParts(dir) \o PathParts(name)

\* local_path = self.download_dir / Path(object_name).name
LocalPath(object_name) == PathJoin(DOWNLOAD_DIR, PathName(object_name))

(* ------------------------------- state --------------------------------- *)

VARIABLES
    pc,              \* position of main: "main", "run", "listing", "listed",
                     \* "downloading", "returned", "exited"
    pattern,         \* self.pattern
    clock,           \* the UTC hour datetime.now reads
    listing,         \* the objects the provider has yielded so far
    listed_at,       \* the clock reading when each listed object was examined
    recent_backups,  \* the local list of find_recent_backups
    backups,         \* the list find_recent_backups returned to run
    j,               \* position of run's download loop in backups
    success_count,   \* run's success counter
    attempts,        \* the download_file calls made: [name, ok]
    files,           \* destination files written by this run: path -> key
    reported,        \* the "k/N succeeded" line: <<k, N>>, or <<>> before it
    run_result,      \* the value run returned
    exit_status,     \* the process exit status, -1 while running
    log,             \* the kinds of message logged
    listing_raised   \* whether list_objects or its iteration raised

vars == <<pc, pattern, clock, listing, listed_at, recent_backups, backups, j,
          success_count, attempts, files, reported, run_result, exit_status, log,
          listing_raised>>

NoFiles == [p \in {} |-> <<>>]

Init ==
    /\ pc = "main"
    /\ pattern \in Patterns
    /\ clock = Clock0
    /\ listing = <<>>
    /\ listed_at = <<>>
    /\ recent_backups = <<>>
    /\ backups = <<>>
    /\ j = 0
    /\ success_count = 0
    /\ attempts = <<>>
    /\ files = NoFiles
    /\ reported = <<>>
    /\ run_result = FALSE
    /\ exit_status = -1
    /\ log = {}
    /\ listing_raised = FALSE

(* ------------------------------ actions -------------------------------- *)

\* time passes between any two steps of the program
Tick ==
    /\ pc # "exited"
    /\ clock < Clock0 + MaxTicks
    /\ clock' = clock + 1
    /\ UNCHANGED <<pc, pattern, listing, listed_at, recent_backups, backups,
                   j, success_count, attempts, files, reported, run_result,
                   exit_status, log, listing_raised>>

\* main: S3BackupDownloader(...) succeeds
Construct ==
    /\ pc = "main"
    /\ pc' = "run"
    /\ log' = log \cup {"connected"}
    /\ UNCHANGED <<pattern, clock, listing, listed_at, recent_backups,
                   backups, j, success_count, attempts, files, reported,
                   run_result, exit_status, listing_raised>>

\* main: the constructor raises (mkdir, or Minio(...) which logs and re-raises);
\* main logs the fatal error and calls exit(1)
ConstructFail ==
    /\ pc = "main"
    /\ \E cause \in {"mkdir", "client"} :
          log' = log \cup (IF cause = "client" THEN {"connect_error"} ELSE {})
                     \cup {"fatal"}
    /\ exit_status' = 1
    /\ pc' = "exited"
    /\ UNCHANGED <<pattern, clock, listing, listed_at, recent_backups,
                   backups, j, success_count, attempts, files, reported,
                   run_result, listing_raised>>

\* run: the banner, then find_recent_backups starts and calls list_objects
RunStart ==
    /\ pc = "run"
    /\ pc' = "listing"
    /\ recent_backups' = <<>>
    /\ log' = log \cup {"banner"}
    /\ UNCHANGED <<pattern, clock, listing, listed_at, backups, j,
                   success_count, attempts, files, reported, run_result,
                   exit_status, listing_raised>>

Candidate(obj) ==
    [name |-> obj.object_name, modified |-> obj.last_modified, size |-> obj.size]

\* the candidate is put in front of the list
CollectPrepend(list, obj) == <<Candidate(obj)>> \o list

\* recent_backups.append({...})
Collect(list, obj) == Append(list, Candidate(obj))

\* find_recent_backups: one iteration of "for obj in objects"
ListNext ==
    /\ pc = "listing"
    /\ Len(listing) < MaxListing
    /\ \E key \in Keys, stamp \in Stamps, size \in Sizes :
          LET obj == [object_name |-> key, last_modified |-> stamp, size |-> size]
          IN /\ \A n \in 1..Len(listing) : listing[n].object_name # key
             /\ listing' = Append(listing, obj)
             /\ listed_at' = Append(listed_at, clock)
             /\ IF PatternMatch(pattern, obj.object_name)
                   /\ is_recent(obj.last_modified, HOURS, clock)
                THEN /\ recent_backups' = Collect(recent_backups, obj)
                     /\ log' = log \cup {"found"}
                ELSE UNCHANGED <<recent_backups, log>>
    /\ UNCHANGED <<pc, pattern, clock, backups, j, success_count, attempts,
                   files, reported, run_result, exit_status, listing_raised>>

\* the partial list is returned
ReturnOnErrorPartial(list) == list

\* the value of "return []" in the two except clauses
ReturnOnError(list) == <<>>

\* find_recent_backups: list_objects or the iteration raises
ListError ==
    /\ pc = "listing"
    /\ \E kind \in {"s3_search_error", "search_error"} : log' = log \cup {kind}
    /\ backups' = ReturnOnError(recent_backups)
    /\ listing_raised' = TRUE
    /\ pc' = "listed"
    /\ UNCHANGED <<pattern, clock, listing, listed_at, recent_backups, j,
                   success_count, attempts, files, reported, run_result,
                   exit_status>>

\* find_recent_backups: the listing is exhausted, the list is returned
ListDone ==
    /\ pc = "listing"
    /\ log' = log \cup (IF recent_backups = <<>> THEN {"no_recent_warning"} ELSE {})
    /\ backups' = recent_backups
    /\ pc' = "listed"
    /\ UNCHANGED <<pattern, clock, listing, listed_at, recent_backups, j,
                   success_count, attempts, files, reported, run_result,
                   exit_status, listing_raised>>

\* the emptiness test left out
IsEmptyNever(list) == FALSE

\* "not backups"
IsEmpty(list) == list = <<>>

\* run: "if not backups: ... return False", else the download loop starts
CheckBackups ==
    /\ pc = "listed"
    /\ IF IsEmpty(backups)
       THEN /\ log' = log \cup {"no_backups_error"}
            /\ run_result' = FALSE
            /\ pc' = "returned"
            /\ UNCHANGED <<j, success_count>>
       ELSE /\ success_count' = 0
            /\ j' = 1
            /\ pc' = "downloading"
            /\ UNCHANGED <<log, run_result>>
    /\ UNCHANGED <<pattern, clock, listing, listed_at, recent_backups,
                   backups, attempts, files, reported, exit_status,
                   listing_raised>>

\* an existing file is kept
WriteFileKeep(fs, path, key) ==
    IF path \in DOMAIN fs THEN fs ELSE (path :> key) @@ fs

\* fget_object writes the object to the path, replacing what is there
WriteFile(fs, path, key) == (path :> key) @@ fs

\* run: one iteration of the loop, download_file returns True
DownloadOk ==
    /\ pc = "downloading"
    /\ j <= Len(backups)
    /\ LET object_name == backups[j].name
           local_path == LocalPath(object_name)
       IN /\ files' = WriteFile(files, local_path, object_name)
          /\ attempts' = Append(attempts, [name |-> object_name, ok |-> TRUE])
    /\ log' = log \cup {"downloading", "download_succeeded"}
    /\ success_count' = success_count + 1
    /\ j' = j + 1
    /\ UNCHANGED <<pc, pattern, clock, listing, listed_at, recent_backups,
                   backups, reported, run_result, exit_status,
                   listing_raised>>

\* where the loop goes after a failure: out of the loop
NextAfterFailureStop(pos, n) == n + 1

\* where the loop goes after a failure: the next candidate
NextAfterFailure(pos, n) == pos + 1

\* a failed download is counted
CountAfterFailureCounted(n) == n + 1

\* download_file returned False: the counter is not incremented
CountAfterFailure(n) == n

\* run: one iteration of the loop, download_file catches an error and
\* returns False
DownloadFail ==
    /\ pc = "downloading"
    /\ j <= Len(backups)
    /\ LET object_name == backups[j].name
           local_path == LocalPath(object_name)
       IN /\ files' = files
          /\ attempts' = Append(attempts, [name |-> object_name, ok |-> FALSE])
    /\ \E kind \in {"s3_download_error", "download_error"} :
          log' = log \cup {"downloading", kind}
    /\ success_count' = CountAfterFailure(success_count)
    /\ j' = NextAfterFailure(j, Len(backups))
    /\ UNCHANGED <<pc, pattern, clock, listing, listed_at, recent_backups,
                   backups, reported, run_result, exit_status,
                   listing_raised>>

\* the whole run is started again when nothing was downloaded
AfterLoopRetry(k) == IF k = 0 THEN "run" ELSE "returned"

\* run returns to main after the loop
AfterLoop(k) == "returned"

\* "return success_count > 0"
RunSuccess(k, n) == k > 0

\* run: the loop is over, the tally is logged and the result returned
RunFinish ==
    /\ pc = "downloading"
    /\ j > Len(backups)
    /\ reported' = <<success_count, Len(backups)>>
    /\ log' = log \cup {"finished"}
    /\ run_result' = RunSuccess(success_count, Len(backups))
    /\ pc' = AfterLoop(success_count)
    /\ UNCHANGED <<pattern, clock, listing, listed_at, recent_backups,
                   backups, j, success_count, attempts, files, exit_status,
                   listing_raised>>

\* the failure is not turned into an exit status
ExitCodeAlwaysZero(success) == IF success THEN 0 ELSE 0

\* main: "if not success: exit(1)", else the interpreter exits with 0
ExitCode(success) == IF ~success THEN 1 ELSE 0

\* main: run has returned
MainExit ==
    /\ pc = "returned"
    /\ exit_status' = ExitCode(run_result)
    /\ pc' = "exited"
    /\ UNCHANGED <<pattern, clock, listing, listed_at, recent_backups,
                   backups, j, success_count, attempts, files, reported,
                   run_result, log, listing_raised>>

Step ==
    \/ Construct
    \/ ConstructFail
    \/ RunStart
    \/ ListNext
    \/ ListError
    \/ ListDone
    \/ CheckBackups
    \/ DownloadOk
    \/ DownloadFail
    \/ RunFinish
    \/ MainExit

Next == Step \/ Tick

Spec == Init /\ [][Next]_vars

\* the program is sequential and every call returns: a step that can be
\* taken is taken
FairSpec == Spec /\ WF_vars(Step)

(* ---------------------------- properties ------------------------------ *)

\* the state of the run in the terms of the design: Idle, Listing,
\* Downloading, Failed, Done
RunState ==
    CASE pc \in {"main", "run"} -> "Idle"
      [] pc \in {"listing", "listed"} -> "Listing"
      [] pc = "downloading" -> "Downloading"
      [] OTHER -> IF "banner" \notin log THEN "Idle"
                  ELSE IF j = 0 THEN "Failed" ELSE "Done"

\* find_recent_backups has returned
ListingReturned == pc \in {"listed", "downloading", "returned", "exited"}

\* find_recent_backups returns to run with a completed listing
ListingCompleted == pc = "listed" /\ ~listing_raised

\* run has returned
RunReturned == pc \in {"returned", "exited"} /\ "banner" \in log

\* the instant of a timestamp in UTC hours, a naive one read as UTC
UtcInstant(dt) == IF dt.aware THEN dt.wall - dt.off ELSE dt.wall

\* listing entry n matched at position 0 and was strictly younger than
\* 24 hours when it was examined
Qualifies(n) ==
    /\ MatchFrom(pattern, 1, listing[n].object_name, 1)
    /\ UtcInstant(listing[n].last_modified) > listed_at[n] - 24

InResult(n) ==
    \E m \in 1..Len(backups) : backups[m].name = listing[n].object_name

\* position of a key in the provider's listing
Pos(name) == CHOOSE n \in 1..Len(listing) : listing[n].object_name = name

\* number of download_file calls that returned True
Succeeded == Cardinality({n \in 1..Len(attempts) : attempts[n].ok})

\* the part of a key after its last "/"
FinalSegment(key) ==
    LET slashes == {n \in 1..Len(key) : key[n] = "/"}
        last == IF slashes = {} THEN 0
                ELSE CHOOSE n \in slashes : \A m \in slashes : m <= n
    IN SubSeq(key, last + 1, Len(key))

Destination == <<<<"d", "o", "w", "n", "l", "o", "a", "d", "s">>>>

\* C1: when the listing completes without error, a listed object is in the
\* returned list if and only if its key matches the pattern at position 0
\* and its last-modified instant (naive read as UTC) is strictly later than
\* the time of its examination minus 24 hours; a key the pattern matches
\* only at a later position is left out.
C1_FilterExact ==
    ListingCompleted =>
        \A n \in 1..Len(listing) :
           /\ InResult(n) <=> Qualifies(n)
           /\ (/\ PatternSearch(pattern, listing[n].object_name)
               /\ ~MatchFrom(pattern, 1, listing[n].object_name, 1)) => ~InResult(n)

\* C1 witness: a completed listing with a matching object modified exactly
\* 24 hours before its examination left out and a matching recent one kept.
C1_Witness ==
    /\ ListingCompleted
    /\ \E n \in 1..Len(listing) :
          /\ MatchFrom(pattern, 1, listing[n].object_name, 1)
          /\ UtcInstant(listing[n].last_modified) = listed_at[n] - 24
          /\ ~InResult(n)
    /\ \E n \in 1..Len(listing) : InResult(n)

\* C2: the returned list keeps the listing order, without duplicating or
\* dropping a qualifying entry, and each entry carries its object's fields.
C2_ListingOrder ==
    ListingCompleted =>
        /\ \A a, b \in 1..Len(backups) :
              a < b => Pos(backups[a].name) < Pos(backups[b].name)
        /\ Len(backups) = Cardinality({n \in 1..Len(listing) : Qualifies(n)})
        /\ \A m \in 1..Len(backups) :
              \E n \in 1..Len(listing) :
                 /\ Qualifies(n)
                 /\ backups[m] = [name |-> listing[n].object_name,
                                  modified |-> listing[n].last_modified,
                                  size |-> listing[n].size]

\* C2 witness: two candidates were returned.
C2_Witness == ListingCompleted /\ Len(backups) >= 2

\* C3: a run whose list-and-filter step gave no candidate never enters the
\* download loop, attempts no download and returns failure.
C3_EmptyFails ==
    (ListingReturned /\ backups = <<>>) =>
        /\ pc # "downloading"
        /\ attempts = <<>>
        /\ files = NoFiles
        /\ RunReturned => ~run_result

\* C3 witness: the run returned with no candidate although objects were
\* listed and the listing did not fail.
C3_Witness ==
    RunReturned /\ backups = <<>> /\ listing # <<>> /\ ~listing_raised

\* C4: a run with N >= 1 candidates reports k/N, k the number of successful
\* download_file calls, and returns success iff k >= 1.
C4_Tally ==
    (RunReturned /\ backups # <<>>) =>
        /\ reported = <<Succeeded, Len(backups)>>
        /\ Succeeded <= Len(backups)
        /\ run_result <=> (Succeeded >= 1)

\* C4 witness: a run with two candidates of which one download succeeded.
C4_Witness ==
    RunReturned /\ Len(backups) = 2 /\ Succeeded = 1 /\ run_result

\* C5: the download_file calls are the candidates in list order, each once,
\* and after the run every candidate has been attempted, whatever failed.
C5_AllAttempted ==
    /\ Len(attempts) <= Len(backups)
    /\ \A n \in 1..Len(attempts) : attempts[n].name = backups[n].name
    /\ (RunReturned /\ backups # <<>>) => Len(attempts) = Len(backups)

\* C5 witness: the first download failed and the second was attempted.
C5_Witness ==
    RunReturned /\ Len(attempts) = 2 /\ ~attempts[1].ok

ExitStatusOk ==
    IF pc = "exited"
    THEN /\ exit_status \in {0, 1}
         /\ Succeeded >= 1 => exit_status = 0
         /\ (backups = <<>> \/ "fatal" \in log) => exit_status = 1
    ELSE exit_status = -1

\* C7: every execution of main ends, with status 0 if a download succeeded
\* and status 1 if no candidate was found or the construction failed; there
\* is no other status.
C7_ExitStatus == []ExitStatusOk /\ <>(pc = "exited")

\* C7 witness: the storage client could not be built and the process exited
\* with status 1.
C7_Witness ==
    pc = "exited" /\ "connect_error" \in log /\ exit_status = 1

\* C8: when the listing raises, the error is logged, the empty list is
\* returned and nothing is downloaded.
C8_ListingError ==
    listing_raised =>
        /\ log \cap {"s3_search_error", "search_error"} # {}
        /\ backups = <<>>
        /\ attempts = <<>>
        /\ files = NoFiles
        /\ RunReturned => ~run_result

\* C8 witness: the listing raised after a qualifying object was collected
\* and the run returned.
C8_Witness ==
    listing_raised /\ recent_backups # <<>> /\ RunReturned

RunEdges ==
    { <<"Idle", "Listing">>, <<"Listing", "Failed">>,
      <<"Listing", "Downloading">>, <<"Downloading", "Done">> }

\* one step keeps the run state or follows an edge; when the listing is
\* over, the listing, the times of examination and the candidates are fixed
RunStep ==
    /\ RunState' = RunState \/ <<RunState, RunState'>> \in RunEdges
    /\ RunState \in {"Downloading", "Failed", "Done"} =>
          UNCHANGED <<listing, listed_at, backups>>

\* downloads happen only in Downloading and Done, on a non-empty list; every
\* listed object was examined once
RunShape ==
    /\ attempts # <<>> => RunState \in {"Downloading", "Done"}
    /\ RunState \in {"Downloading", "Done"} => backups # <<>>
    /\ RunState = "Failed" => backups = <<>>
    /\ Len(listed_at) = Len(listing)

\* C9: a run goes Idle -> Listing -> Failed or Idle -> Listing ->
\* Downloading -> Done, entering no state twice; no download precedes the
\* end of the listing, no candidate is examined again, and a run that is
\* listing reaches Failed or Done.
C9_StateMachine ==
    /\ [][RunStep]_vars
    /\ []RunShape
    /\ (RunState = "Listing") ~> (RunState \in {"Failed", "Done"})

\* C9 witness: a run is Done and one of its candidates, downloaded, was no
\* longer recent when the run ended.
C9_Witness ==
    /\ RunState = "Done"
    /\ \E n \in 1..Len(attempts) :
          /\ attempts[n].ok
          /\ \E m \in 1..Len(backups) :
                /\ backups[m].name = attempts[n].name
                /\ UtcInstant(backups[m].modified) <= clock - 24

\* the successful attempts that wrote to a path
WritersOf(path) ==
    {n \in 1..Len(attempts) :
        attempts[n].ok /\ Destination \o <<FinalSegment(attempts[n].name)>> = path}

====
